---------------------------- MODULE Spec2Model ----------------------------
(***************************************************************************)
(* Model of the a2a_demo agent network: a manager endpoint (Agent A) that  *)
(* classifies a question, delegates it to one of three worker endpoints    *)
(* (Agent B = HR, Agent C = Tech, Agent D = Design) and reports the        *)
(* worker's text, plus the execute / cancel operations every endpoint      *)
(* exposes on its task event queue, the terminal client's send_question,   *)
(* and the JSON envelope (question, history) that travels from the client  *)
(* through the manager to a worker's prompt.                               *)
(*                                                                         *)
(* Strings whose characters matter (the classifier output) are sequences   *)
(* of one-character strings; an answer text is a sequence of lines.        *)
(***************************************************************************)
EXTENDS Integers, Sequences, FiniteSets, TLC

\* ------------------------------------------------------------------ bounds

\* How many times the environment may invoke cancel on one task.
MaxCancels == 1

\* How many tokens a classifier output is concatenated from (SpecRoute).
MaxTokens == 3

\* How many tasks run at once on one endpoint process (SpecTasks).
NumTasks == 2

\* How many lines the terminal client's main reads (SpecClient).
MaxInputs == 3

\* How many characters a question has (SpecCodec).
MaxQLen == 2

\* How many turns a conversation history has (SpecCodec).
MaxTurns == 2

\* ------------------------------------------------------------- characters

None == "None"

Whitespace == {" ", "\n"}

\* str.upper on the characters used by the model
UpperChar(c) ==
    CASE c = "t" -> "T" [] c = "e" -> "E" [] c = "c" -> "C" [] c = "h" -> "H"
      [] c = "r" -> "R" [] c = "d" -> "D" [] c = "s" -> "S" [] c = "i" -> "I"
      [] c = "g" -> "G" [] c = "n" -> "N" [] c = "u" -> "U"
      [] OTHER -> c

UpperNoFold(s) == s

\* str.upper(): every character replaced by its upper-case form
Upper(s) == [i \in DOMAIN s |-> UpperChar(s[i])]

RECURSIVE LStrip(_)
LStrip(s) ==
    IF s # <<>> /\ Head(s) \in Whitespace THEN LStrip(Tail(s)) ELSE s

RECURSIVE RStrip(_)
RStrip(s) ==
    IF s # <<>> /\ s[Len(s)] \in Whitespace
    THEN RStrip(SubSeq(s, 1, Len(s) - 1))
    ELSE s

\* str.strip(): leading and trailing whitespace removed
Strip(s) == RStrip(LStrip(s))

\* Python's  sub in s
Contains(s, sub) ==
    \E i \in 0..(Len(s) - Len(sub)) : SubSeq(s, i + 1, i + Len(sub)) = sub

TECH == <<"T", "E", "C", "H">>
HR == <<"H", "R">>
DESIGN == <<"D", "E", "S", "I", "G", "N">>

Labels == {"TECH", "HR", "DESIGN"}

LabelChars(l) ==
    CASE l = "TECH" -> TECH [] l = "HR" -> HR [] l = "DESIGN" -> DESIGN

\* ------------------------------------------------------ routing (manager)

\* decision = response.choices[0].message.content.strip().upper()
Decision(content) == Upper(Strip(content))

NormalizeDesignFirst(decision) ==
    IF Contains(decision, DESIGN) THEN "DESIGN"
    ELSE IF Contains(decision, HR) THEN "HR"
    ELSE "TECH"

\* the if / elif chain of route_question
Normalize(decision) ==
    IF Contains(decision, TECH) THEN "TECH"
    ELSE IF Contains(decision, HR) THEN "HR"
    ELSE IF Contains(decision, DESIGN) THEN "DESIGN"
    ELSE "TECH"

\* message.content of a completion: a string, or None (absent)
Content(chars) == [absent |-> FALSE, chars |-> chars]
NoContent == [absent |-> TRUE, chars |-> <<>>]

\* None.strip() raises AttributeError: route_question returns no label
RouteRaises(content) == content.absent

RouteToTechAlways(routed_to) == "call_tech_expert"

\* the conditional edge after route
route_to_expert(routed_to) ==
    IF routed_to = "TECH" THEN "call_tech_expert"
    ELSE IF routed_to = "HR" THEN "call_hr_expert"
    ELSE "call_design_expert"

DelegateNodes == {"call_tech_expert", "call_hr_expert", "call_design_expert"}

EdgeFromSkipsFinalize(n) == "END"

\* manager_builder.add_edge(...): the unconditional edges of the graph
EdgeFrom(n) ==
    CASE n \in DelegateNodes -> "finalize"
      [] n = "finalize" -> "END"

AGENT_B_URL == "http://localhost:8000"
AGENT_C_URL == "http://localhost:8001"
AGENT_D_URL == "http://localhost:8003"

UrlOfTechOnly(n) == AGENT_C_URL

\* the address each delegate function passes to ClientFactory.connect
UrlOf(n) ==
    CASE n = "call_tech_expert" -> AGENT_C_URL
      [] n = "call_hr_expert" -> AGENT_B_URL
      [] n = "call_design_expert" -> AGENT_D_URL

\* the worker whose server listens on the port of the address
ListensAt(url) ==
    CASE url = "http://localhost:8000" -> "B"
      [] url = "http://localhost:8001" -> "C"
      [] url = "http://localhost:8003" -> "D"

\* the worker each delegate function connects to
AgentOf(n) == ListensAt(UrlOf(n))

\* Message(message_id, role=Role.user, parts=[TextPart]) as a delegate
\* function builds it: no context_id, no task_id
MessageTo(url) ==
    [url |-> url, role |-> "user", context_id |-> None, task_id |-> None]

PlaceholderTechOnly(n) == <<"No result from Tech Expert.">>

\* worker_text's initial value in each delegate function
Placeholder(n) ==
    CASE n = "call_tech_expert" -> <<"No result from Tech Expert.">>
      [] n = "call_hr_expert" -> <<"No result from HR Expert.">>
      [] n = "call_design_expert" -> <<"No result from Design Expert.">>

ExpertNameTechOnly(routed_to) == "Tech Expert"

\* finalize_response: the expert named in the report
ExpertName(routed_to) ==
    IF routed_to = "TECH" THEN "Tech Expert"
    ELSE IF routed_to = "HR" THEN "HR Expert"
    ELSE "Design Expert"

\* finalize_response: the report as its lines (a text is a sequence of lines):
\* the box header with the expert's name, the worker's text, the rule
Report(routed_to, worker_response) ==
    <<"", "box-top", "AGENT A - MANAGER RESPONSE", "box-mid",
      ExpertName(routed_to), "box-bottom", "">>
    \o worker_response \o <<"", "rule", "">>

\* ------------------------------------------------------------------ events

ArtifactEventNotLast(ids, text) ==
    [kind |-> "artifact", task_id |-> ids.task_id,
     context_id |-> ids.context_id,
     parts |-> <<[type |-> "text", text |-> text]>>, last_chunk |-> FALSE]

\* TaskArtifactUpdateEvent(task_id, context_id, Artifact(parts=[TextPart]),
\* last_chunk=True); artifact_id is a fresh uuid and is left out
ArtifactEvent(ids, text) ==
    [kind |-> "artifact", task_id |-> ids.task_id,
     context_id |-> ids.context_id,
     parts |-> <<[type |-> "text", text |-> text]>>, last_chunk |-> TRUE]

\* TaskStatusUpdateEvent(status=TaskStatus(state=completed), final=True)
CompletedEvent(ids) ==
    [kind |-> "status", task_id |-> ids.task_id,
     context_id |-> ids.context_id, state |-> "completed", final |-> TRUE]

\* TaskStatusUpdateEvent(status=TaskStatus(state=canceled), final=True)
CanceledEvent(ids) ==
    [kind |-> "status", task_id |-> ids.task_id,
     context_id |-> ids.context_id, state |-> "canceled", final |-> TRUE]

IsFinal(e) == e.kind = "status" /\ e.final

IsArtifact(e) == e.kind = "artifact"

IsStatus(e, st) == e.kind = "status" /\ e.state = st

\* ---------------------------------------------------------------- inputs

TaskIds == {"t1", "t2"}
ContextIds == {"c1", "c2"}
IdPairs == [task_id : TaskIds, context_id : ContextIds]
NoIds == [task_id |-> None, context_id |-> None]

\* texts the completion service answers a worker with
Answers == {<<"answer-1">>, <<"answer-2", "more">>}

\* classifier outputs the completion service answers the router with
RouteContents ==
    {Content(<<"T", "E", "C", "H">>), Content(<<" ", "h", "r", "\n">>),
     Content(<<"D", "e", "s", "i", "g", "n", ".">>),
     Content(<<"U", "N", "S", "U", "R", "E">>), NoContent}

\* a text that is not set (a key the state dict does not hold yet)
NoText == <<>>

\* ------------------------------------------------------------------- JSON

\* A JSON value (what json.loads returns, what json.dumps takes): t is its
\* type, s the characters of a string or number, items the elements of a
\* list (k empty) or the key / value pairs of a dict.
JStr(s) == [t |-> "str", s |-> s, items |-> <<>>]
JNum(s) == [t |-> "num", s |-> s, items |-> <<>>]
JNull == [t |-> "null", s |-> <<>>, items |-> <<>>]
JArr(vs) ==
    [t |-> "arr", s |-> <<>>,
     items |-> [i \in DOMAIN vs |-> [k |-> <<>>, v |-> vs[i]]]]
JObj(pairs) == [t |-> "obj", s |-> <<>>, items |-> pairs]

\* the elements of a list value
Elements(v) == [i \in DOMAIN v.items |-> v.items[i].v]

\* key in data
HasKey(v, key) == \E i \in DOMAIN v.items : v.items[i].k = key

\* data[key]
GetKey(v, key) ==
    v.items[CHOOSE i \in DOMAIN v.items : v.items[i].k = key].v

\* d[key] = value on the pairs of a dict: a repeated key keeps its place and
\* takes the later value
DictSet(pairs, key, value) ==
    IF \E i \in DOMAIN pairs : pairs[i].k = key
    THEN [i \in DOMAIN pairs |->
            IF pairs[i].k = key THEN [k |-> key, v |-> value] ELSE pairs[i]]
    ELSE Append(pairs, [k |-> key, v |-> value])

Quote == "\""
Backslash == "\\"
Newline == "\n"
\* a character outside ASCII (U+00E9)
EAcute == "<U+00E9>"

Digits == {"0", "1", "5"}
JsonWhitespace == {" ", "\n", "\t", "\r"}

\* the nesting at which the interpreter ends json.loads with RecursionError
\* (1000 frames by default; scaled to the nesting the inputs here reach)
RecursionLimit == 4

EscapeCharRaw(c) == <<c>>

\* json.dumps, ensure_ascii=True: one character of a string
EscapeChar(c) ==
    CASE c = Quote -> <<Backslash, Quote>>
      [] c = Backslash -> <<Backslash, Backslash>>
      [] c = Newline -> <<Backslash, "n">>
      [] c = EAcute -> <<Backslash, "u", "0", "0", "e", "9">>
      [] OTHER -> <<c>>

RECURSIVE EscapeAll(_)
EscapeAll(s) ==
    IF s = <<>> THEN <<>> ELSE EscapeChar(Head(s)) \o EscapeAll(Tail(s))

\* json.dumps of a string
DumpString(s) == <<Quote>> \o EscapeAll(s) \o <<Quote>>

RECURSIVE Dumps(_)
RECURSIVE DumpItems(_, _)
\* the elements of a list or dict, separated by ", "; a dict's with "key: "
DumpItems(items, isObj) ==
    IF items = <<>> THEN <<>>
    ELSE LET it == Head(items)
             one == IF isObj
                    THEN DumpString(it.k) \o <<":", " ">> \o Dumps(it.v)
                    ELSE Dumps(it.v)
         IN  IF Tail(items) = <<>> THEN one
             ELSE one \o <<",", " ">> \o DumpItems(Tail(items), isObj)

\* json.dumps with its default separators
Dumps(v) ==
    CASE v.t = "str" -> DumpString(v.s)
      [] v.t = "num" -> v.s
      [] v.t = "null" -> <<"n", "u", "l", "l">>
      [] v.t = "arr" -> <<"[">> \o DumpItems(v.items, FALSE) \o <<"]">>
      [] v.t = "obj" -> <<"{">> \o DumpItems(v.items, TRUE) \o <<"}">>

\* results of the scanner: st is ok, err (JSONDecodeError) or rec
\* (RecursionError); v the value, i the index after it
Ok(v, i) == [st |-> "ok", v |-> v, i |-> i]
Err == [st |-> "err", v |-> JNull, i |-> 0]
Rec == [st |-> "rec", v |-> JNull, i |-> 0]

RECURSIVE SkipWs(_, _)
SkipWs(s, i) ==
    IF i <= Len(s) /\ s[i] \in JsonWhitespace THEN SkipWs(s, i + 1) ELSE i

RECURSIVE ScanString(_, _, _)
\* the characters of a string after its opening quote
ScanString(s, i, acc) ==
    IF i > Len(s) THEN Err
    ELSE IF s[i] = Quote THEN Ok(JStr(acc), i + 1)
    ELSE IF s[i] = Newline THEN Err
    ELSE IF s[i] = Backslash
    THEN IF i + 1 > Len(s) THEN Err
         ELSE IF s[i + 1] \in {Quote, Backslash}
              THEN ScanString(s, i + 2, Append(acc, s[i + 1]))
         ELSE IF s[i + 1] = "n" THEN ScanString(s, i + 2, Append(acc, Newline))
         ELSE IF /\ s[i + 1] = "u"
                 /\ i + 5 <= Len(s)
                 /\ SubSeq(s, i + 2, i + 5) = <<"0", "0", "e", "9">>
              THEN ScanString(s, i + 6, Append(acc, EAcute))
         ELSE Err
    ELSE ScanString(s, i + 1, Append(acc, s[i]))

RECURSIVE ScanDigits(_, _)
ScanDigits(s, i) ==
    IF i <= Len(s) /\ s[i] \in Digits THEN ScanDigits(s, i + 1) ELSE i

RECURSIVE ScanValue(_, _, _)
RECURSIVE ScanArray(_, _, _, _)
RECURSIVE ScanObject(_, _, _, _)

\* the elements of a list after "[" or after a ",": i is at an element
ScanArray(s, i, depth, acc) ==
    LET r == ScanValue(s, i, depth)
    IN  IF r.st # "ok" THEN r
        ELSE LET j == SkipWs(s, r.i)
             IN  IF j > Len(s) THEN Err
                 ELSE IF s[j] = "]" THEN Ok(JArr(Append(acc, r.v)), j + 1)
                 ELSE IF s[j] = ","
                      THEN ScanArray(s, SkipWs(s, j + 1), depth,
                                     Append(acc, r.v))
                 ELSE Err

\* the pairs of a dict after "{" or after a ",": i is at a key
ScanObject(s, i, depth, acc) ==
    IF i > Len(s) \/ s[i] # Quote THEN Err
    ELSE LET key == ScanString(s, i + 1, <<>>)
         IN  IF key.st # "ok" THEN key
             ELSE LET c == SkipWs(s, key.i)
                  IN  IF c > Len(s) \/ s[c] # ":" THEN Err
                      ELSE LET r == ScanValue(s, SkipWs(s, c + 1), depth)
                           IN  IF r.st # "ok" THEN r
                               ELSE LET j == SkipWs(s, r.i)
                                        now == DictSet(acc, key.v.s, r.v)
                                    IN  IF j > Len(s) THEN Err
                                        ELSE IF s[j] = "}"
                                             THEN Ok(JObj(now), j + 1)
                                        ELSE IF s[j] = ","
                                             THEN ScanObject(s, SkipWs(s, j + 1),
                                                             depth, now)
                                        ELSE Err

\* one JSON value at index i, depth containers deep
ScanValue(s, i, depth) ==
    IF i > Len(s) THEN Err
    ELSE IF s[i] = Quote THEN ScanString(s, i + 1, <<>>)
    ELSE IF s[i] \in Digits
         THEN IF s[i] = "0" THEN Ok(JNum(<<"0">>), i + 1)
              ELSE Ok(JNum(SubSeq(s, i, ScanDigits(s, i) - 1)), ScanDigits(s, i))
    ELSE IF i + 3 <= Len(s) /\ SubSeq(s, i, i + 3) = <<"n", "u", "l", "l">>
         THEN Ok(JNull, i + 4)
    ELSE IF s[i] = "["
         THEN IF depth + 1 > RecursionLimit THEN Rec
              ELSE LET j == SkipWs(s, i + 1)
                   IN  IF j <= Len(s) /\ s[j] = "]" THEN Ok(JArr(<<>>), j + 1)
                       ELSE ScanArray(s, j, depth + 1, <<>>)
    ELSE IF s[i] = "{"
         THEN IF depth + 1 > RecursionLimit THEN Rec
              ELSE LET j == SkipWs(s, i + 1)
                   IN  IF j <= Len(s) /\ s[j] = "}" THEN Ok(JObj(<<>>), j + 1)
                       ELSE ScanObject(s, j, depth + 1, <<>>)
    ELSE Err

\* json.loads: one value, whitespace around it, nothing after it
Loads(s) ==
    LET r == ScanValue(s, SkipWs(s, 1), 0)
    IN  IF r.st # "ok" THEN r
        ELSE IF SkipWs(s, r.i) = Len(s) + 1 THEN r
        ELSE Err

\* ------------------------------------------------------------ envelope

CQ == <<"c", "u", "r", "r", "e", "n", "t", "_",
        "q", "u", "e", "s", "t", "i", "o", "n">>
CH == <<"c", "o", "n", "v", "e", "r", "s", "a", "t", "i", "o", "n", "_",
        "h", "i", "s", "t", "o", "r", "y">>
ROLE == <<"r", "o", "l", "e">>
CONTENT == <<"c", "o", "n", "t", "e", "n", "t">>
USER == <<"u", "s", "e", "r">>
ASSISTANT == <<"a", "s", "s", "i", "s", "t", "a", "n", "t">>
SYSTEM == <<"s", "y", "s", "t", "e", "m">>
SYSTEM_PROMPT == <<"S", "Y", "S", "T", "E", "M", "_", "P", "R", "O", "M", "P", "T">>
NoInputProvided ==
    <<"N", "o", " ", "i", "n", "p", "u", "t", " ",
      "p", "r", "o", "v", "i", "d", "e", "d">>

\* {"role": role, "content": content}
Turn(role, content) ==
    JObj(<<[k |-> ROLE, v |-> role], [k |-> CONTENT, v |-> content]>>)

FormatQuestionWithoutHistory(question, history) ==
    Dumps(JObj(<<[k |-> CQ, v |-> question], [k |-> CH, v |-> JArr(<<>>)]>>))

\* manager: format_question_with_history
format_question_with_history(question, history) ==
    Dumps(JObj(<<[k |-> CQ, v |-> question], [k |-> CH, v |-> history]>>))

\* terminal client: format_message_with_history
format_message_with_history(question, conversation_history) ==
    Dumps(JObj(<<[k |-> CQ, v |-> question],
                 [k |-> CH, v |-> conversation_history]>>))

\* what parse_input_message returns, or that it raised
Parsed(q, h) == [raised |-> FALSE, q |-> q, h |-> h]
ParseRaised == [raised |-> TRUE, q |-> JNull, h |-> JNull]
NoParse == Parsed(JNull, JNull)

\* parse_input_message (the same function in the manager and each worker):
\* only JSONDecodeError and TypeError are caught
parse_input_message(raw_input) ==
    LET r == Loads(raw_input)
    IN  IF r.st = "rec" THEN ParseRaised
        ELSE IF r.st = "ok" /\ r.v.t = "obj" /\ HasKey(r.v, CQ)
        THEN Parsed(GetKey(r.v, CQ),
                    IF HasKey(r.v, CH) THEN GetKey(r.v, CH) ELSE JArr(<<>>))
        ELSE Parsed(JStr(raw_input), JArr(<<>>))

\* context.get_user_input() or "No input provided"
UserInput(text) == IF text = <<>> THEN NoInputProvided ELSE text

\* len(conversation_history) in execute returns
HasLen(v) == v.t \in {"str", "arr", "obj"}

\* the messages list, or that building it raised
Messages(list) == [raised |-> FALSE, list |-> list]
MessagesRaised == [raised |-> TRUE, list |-> <<>>]

\* turn["role"], turn["content"] can be read
IsTurn(turn) == turn.t = "obj" /\ HasKey(turn, ROLE) /\ HasKey(turn, CONTENT)

\* for turn in history  runs without raising: a list of turns, or an empty
\* string or dict
Iterable(history) ==
    \/ history.t = "arr" /\ \A i \in DOMAIN history.items : IsTurn(history.items[i].v)
    \/ history.t \in {"str", "obj"} /\ history.s = <<>> /\ history.items = <<>>

BuildMessagesReversed(question, history) ==
    IF ~Iterable(history) THEN MessagesRaised
    ELSE Messages(
           <<[role |-> JStr(SYSTEM), content |-> JStr(SYSTEM_PROMPT)]>>
           \o [i \in DOMAIN history.items |->
                 [role |-> GetKey(history.items[Len(history.items) + 1 - i].v, ROLE),
                  content |-> GetKey(history.items[Len(history.items) + 1 - i].v, CONTENT)]]
           \o <<[role |-> JStr(USER), content |-> question]>>)

\* answer_hr_question / answer_tech_question / answer_design_question: the
\* messages passed to client.chat.completions.create
BuildMessages(question, history) ==
    IF ~Iterable(history) THEN MessagesRaised
    ELSE Messages(
           <<[role |-> JStr(SYSTEM), content |-> JStr(SYSTEM_PROMPT)]>>
           \o [i \in DOMAIN history.items |->
                 [role |-> GetKey(history.items[i].v, ROLE),
                  content |-> GetKey(history.items[i].v, CONTENT)]]
           \o <<[role |-> JStr(USER), content |-> question]>>)

\* ----------------------------------------------------------------- state

VARIABLES
    m_pc,        \* where ManagerExecutor.execute is
    m_ids,       \* context.task_id, context.context_id of the manager task
    m_state,     \* ManagerState: routed_to, worker_response, final_output
    node,        \* the graph node that runs (or is scheduled) now
    ran,         \* the graph nodes that have started, in order
    m_events,    \* the manager task's event queue
    m_cancels,   \* how often cancel was invoked on the manager task
    m_hist,      \* what went wrong: route_failed, deleg
    conn,        \* the a2a client of the delegate function
    rd,          \* how many events of the worker's stream were consumed
    worker_text, \* the delegate function's local worker_text
    failed_seen, \* the stream delivered a failed task and ended
    sent,        \* the messages the delegate function sent, in order
    w_pc,        \* where the worker's execute is
    w_agent,     \* which worker endpoint holds the worker task
    w_ids,       \* context.task_id, context.context_id of the worker task
    w_out,       \* response["output_text"]
    w_events,    \* the worker task's event queue
    w_cancels,   \* how often cancel was invoked on the worker task
    r_content,   \* SpecRoute: the classifier output
    r_result,    \* SpecRoute: what route_question returned
    e_pc,        \* SpecCodec: where the payload is on its way
    e_in,        \* SpecCodec: what the caller sends
    e_text,      \* SpecCodec: the text part the manager receives
    e_mgr,       \* SpecCodec: what the manager's parse_input_message returned
    e_wtext,     \* SpecCodec: the text part the worker receives
    e_wrk,       \* SpecCodec: what the worker's parse_input_message returned
    e_msgs,      \* SpecCodec: the messages given to the completion service
    t_pc,        \* where the terminal client's send_question is
    t_conn,      \* the a2a client of send_question
    t_rd,        \* how many events of the manager's stream were consumed
    response_text, \* send_question's local response_text
    t_failed_seen, \* the stream delivered a failed manager task and ended
    tasks,       \* SpecTasks: the tasks that run on one endpoint process
    l_pc,        \* SpecClient: where the terminal client's main is
    SESSION_ID,  \* SpecClient: the module's SESSION_ID
    conversation_history, \* SpecClient: main's conversation_history
    l_sent,      \* SpecClient: the messages send_question sent, in order
    l_log        \* SpecClient: the input lines main has read, in order

vars ==
    <<m_pc, m_ids, m_state, node, ran, m_events, m_cancels, m_hist, conn, rd,
      worker_text, failed_seen, sent, w_pc, w_agent, w_ids, w_out, w_events, w_cancels,
      r_content, r_result, e_pc, e_in, e_text, e_mgr, e_wtext, e_wrk, e_msgs,
      t_pc, t_conn, t_rd, response_text, t_failed_seen,
      tasks, l_pc, SESSION_ID, conversation_history, l_sent, l_log>>

mvars == <<m_pc, m_ids, m_state, node, ran, m_events, m_cancels, m_hist>>
cvars == <<conn, rd, worker_text, failed_seen, sent>>
wvars == <<w_pc, w_agent, w_ids, w_out, w_events, w_cancels>>
rvars == <<r_content, r_result>>
evars == <<e_pc, e_in, e_text, e_mgr, e_wtext, e_wrk, e_msgs>>
tvars == <<t_pc, t_conn, t_rd, response_text, t_failed_seen>>
kvars == <<tasks>>
lvars == <<l_pc, SESSION_ID, conversation_history, l_sent, l_log>>

IdleManager ==
    /\ m_pc = "idle"
    /\ m_state = [routed_to |-> None, worker_response |-> NoText,
                  final_output |-> NoText]
    /\ node = "none"
    /\ ran = <<>>
    /\ m_events = <<>>
    /\ m_cancels = 0
    /\ m_hist = [route_failed |-> FALSE, deleg |-> "none"]
    /\ conn = "none"
    /\ rd = 0
    /\ worker_text = NoText
    /\ failed_seen = FALSE
    /\ sent = <<>>

IdleWorker ==
    /\ w_pc = "idle"
    /\ w_agent = None
    /\ w_ids = NoIds
    /\ w_out = NoText
    /\ w_events = <<>>
    /\ w_cancels = 0

\* the data path is not followed
IdleCodec ==
    /\ e_pc = "unused"
    /\ e_in = [kind |-> "raw", q |-> <<>>, h |-> JArr(<<>>), raw |-> <<>>]
    /\ e_text = <<>>
    /\ e_mgr = NoParse
    /\ e_wtext = <<>>
    /\ e_wrk = NoParse
    /\ e_msgs = Messages(<<>>)

\* the endpoint with several tasks is not followed
IdleTasks == tasks = <<>>

\* the terminal client's main is not followed
IdleMain ==
    /\ l_pc = "unused"
    /\ SESSION_ID = "s1"
    /\ conversation_history = <<>>
    /\ l_sent = <<>>
    /\ l_log = <<>>

\* send_question was not called
IdleClient ==
    /\ t_pc = "idle"
    /\ t_conn = "none"
    /\ t_rd = 0
    /\ response_text = NoText
    /\ t_failed_seen = FALSE

Init ==
    /\ IdleManager
    /\ IdleWorker
    /\ IdleCodec
    /\ IdleClient
    /\ IdleTasks
    /\ IdleMain
    /\ m_ids \in IdPairs
    /\ r_content = NoContent
    /\ r_result = "unused"

\* ------------------------------------------------- the stream of a worker

RECURSIVE ArtifactsOf(_)
\* the artifacts of a task, from the artifact events of its queue
ArtifactsOf(events) ==
    IF events = <<>> THEN <<>>
    ELSE LET rest == ArtifactsOf(SubSeq(events, 1, Len(events) - 1))
             e == events[Len(events)]
         IN  IF IsArtifact(e) THEN Append(rest, [parts |-> e.parts]) ELSE rest

\* the task of the (task, update) tuple the client yields for the n-th event
Snapshot(events, n) == [artifacts |-> ArtifactsOf(SubSeq(events, 1, n))]

ExtractTextKeepsCurrent(task, current) == current

\* the body of  async for event in a2a_client.send_message(message)
ExtractText(task, current) ==
    IF task.artifacts # <<>>
    THEN LET artifact == task.artifacts[1]
         IN  IF artifact.parts # <<>>
             THEN LET part == artifact.parts[1]
                  IN  IF "text" \in DOMAIN part THEN part.text ELSE current
             ELSE current
    ELSE current

\* the transport ends the stream once a final status event was delivered, or
\* after it delivered the failed task of an execute that raised
StreamEnded ==
    \/ failed_seen
    \/ \E i \in 1..rd : IsFinal(w_events[i])

\* ------------------------------------------------ ManagerExecutor.execute

\* execute up to its first suspension: the graph is invoked and its entry
\* node, route, awaits the completion service
ExecuteStart ==
    /\ m_pc = "accepted"
    /\ m_pc' = "route"
    /\ node' = "route"
    /\ ran' = Append(ran, "route")
    /\ UNCHANGED <<m_ids, m_state, m_events, m_cancels, m_hist>>
    /\ UNCHANGED <<cvars, wvars, rvars, evars, tvars>>
    /\ UNCHANGED <<kvars, lvars>>

\* route_question after the completion service answered
RouteReturn ==
    /\ m_pc = "route"
    /\ \E content \in RouteContents :
         IF RouteRaises(content)
         THEN /\ m_pc' = "raised"
              /\ UNCHANGED <<m_state, node>>
         ELSE /\ m_state' =
                   [m_state EXCEPT !.routed_to = Normalize(Decision(content.chars))]
              /\ node' = route_to_expert(m_state'.routed_to)
              /\ m_pc' = "delegate"
    /\ UNCHANGED <<m_ids, ran, m_events, m_cancels, m_hist>>
    /\ UNCHANGED <<cvars, wvars, rvars, evars, tvars>>
    /\ UNCHANGED <<kvars, lvars>>

\* the completion service call of route_question raises
RouteFail ==
    /\ m_pc = "route"
    /\ m_pc' = "raised"
    /\ m_hist' = [m_hist EXCEPT !.route_failed = TRUE]
    /\ UNCHANGED <<m_ids, m_state, node, ran, m_events, m_cancels>>
    /\ UNCHANGED <<cvars, wvars, rvars, evars, tvars>>
    /\ UNCHANGED <<kvars, lvars>>

\* the scheduled delegate node starts: up to  await ClientFactory.connect
DelegateStart ==
    /\ m_pc = "delegate"
    /\ node \in DelegateNodes
    /\ ran' = Append(ran, node)
    /\ conn' = "connecting"
    /\ m_pc' = "connect"
    /\ UNCHANGED <<m_ids, m_state, node, m_events, m_cancels, m_hist>>
    /\ UNCHANGED <<rd, worker_text, failed_seen, sent, wvars, rvars, evars, tvars>>
    /\ UNCHANGED <<kvars, lvars>>

\* connect returned: the message is sent to the worker, which accepts a task
ConnectOk ==
    /\ m_pc = "connect"
    /\ conn' = "open"
    /\ worker_text' = Placeholder(node)
    /\ m_pc' = "drain"
    /\ w_pc' = "accepted"
    /\ sent' = Append(sent, MessageTo(UrlOf(node)))
    /\ w_agent' = AgentOf(node)
    /\ w_ids' \in IdPairs
    /\ UNCHANGED <<m_ids, m_state, node, ran, m_events, m_cancels, m_hist>>
    /\ UNCHANGED <<rd, failed_seen, w_out, w_events, w_cancels, rvars, evars, tvars>>
    /\ UNCHANGED <<kvars, lvars>>

\* connect raised: nothing catches it in the delegate function, the graph or
\* execute
ConnectFail ==
    /\ m_pc = "connect"
    /\ conn' = "none"
    /\ m_pc' = "raised"
    /\ m_hist' = [m_hist EXCEPT !.deleg = "connect_error"]
    /\ UNCHANGED <<m_ids, m_state, node, ran, m_events, m_cancels>>
    /\ UNCHANGED <<rd, worker_text, failed_seen, sent, wvars, rvars, evars, tvars>>
    /\ UNCHANGED <<kvars, lvars>>

\* one iteration of the loop over the worker's events
DrainEvent ==
    /\ m_pc = "drain"
    /\ ~failed_seen
    /\ rd < Len(w_events)
    /\ rd' = rd + 1
    /\ worker_text' = ExtractText(Snapshot(w_events, rd + 1), worker_text)
    /\ UNCHANGED <<mvars, conn, failed_seen, sent, wvars, rvars, evars, tvars>>
    /\ UNCHANGED <<kvars, lvars>>

\* one iteration on the task of an execute that raised: status failed, the
\* artifacts it had
DrainFailed ==
    /\ m_pc = "drain"
    /\ w_pc = "raised"
    /\ rd = Len(w_events)
    /\ ~StreamEnded
    /\ failed_seen' = TRUE
    /\ worker_text' = ExtractText(Snapshot(w_events, rd), worker_text)
    /\ m_hist' = [m_hist EXCEPT !.deleg = "worker_failed"]
    /\ UNCHANGED <<m_pc, m_ids, m_state, node, ran, m_events, m_cancels>>
    /\ UNCHANGED <<conn, rd, sent, wvars, rvars, evars, tvars>>
    /\ UNCHANGED <<kvars, lvars>>

\* the stream raises (timeout, transport error): nothing catches it, and
\* a2a_client.close() is not reached
DrainError ==
    /\ m_pc = "drain"
    /\ ~StreamEnded
    /\ m_pc' = "raised"
    /\ m_hist' = [m_hist EXCEPT !.deleg = "stream_error"]
    /\ UNCHANGED <<m_ids, m_state, node, ran, m_events, m_cancels>>
    /\ UNCHANGED <<cvars, wvars, rvars, evars, tvars>>
    /\ UNCHANGED <<kvars, lvars>>

\* the loop ends: close the client, return worker_response; the graph
\* schedules the node the edge leads to
DrainEnd ==
    /\ m_pc = "drain"
    /\ StreamEnded
    /\ conn' = "closed"
    /\ m_state' = [m_state EXCEPT !.worker_response = worker_text]
    /\ node' = EdgeFrom(node)
    /\ m_pc' = "finalize"
    /\ UNCHANGED <<m_ids, ran, m_events, m_cancels, m_hist>>
    /\ UNCHANGED <<rd, worker_text, failed_seen, sent, wvars, rvars, evars, tvars>>
    /\ UNCHANGED <<kvars, lvars>>

\* finalize_response, and the graph's end
Finalize ==
    /\ m_pc = "finalize"
    /\ node = "finalize"
    /\ ran' = Append(ran, node)
    /\ m_state' = [m_state EXCEPT
                     !.final_output = Report(m_state.routed_to,
                                             m_state.worker_response)]
    /\ node' = EdgeFrom(node)
    /\ m_pc' = "emit_artifact"
    /\ UNCHANGED <<m_ids, m_events, m_cancels, m_hist>>
    /\ UNCHANGED <<cvars, wvars, rvars, evars, tvars>>
    /\ UNCHANGED <<kvars, lvars>>

\* await event_queue.enqueue_event(artifact_event)
MEmitArtifact ==
    /\ m_pc = "emit_artifact"
    /\ m_events' = Append(m_events, ArtifactEvent(m_ids, m_state.final_output))
    /\ m_pc' = "emit_status"
    /\ UNCHANGED <<m_ids, m_state, node, ran, m_cancels, m_hist>>
    /\ UNCHANGED <<cvars, wvars, rvars, evars, tvars>>
    /\ UNCHANGED <<kvars, lvars>>

\* await event_queue.enqueue_event(status_event)
MEmitStatus ==
    /\ m_pc = "emit_status"
    /\ m_events' = Append(m_events, CompletedEvent(m_ids))
    /\ m_pc' = "done"
    /\ UNCHANGED <<m_ids, m_state, node, ran, m_cancels, m_hist>>
    /\ UNCHANGED <<cvars, wvars, rvars, evars, tvars>>
    /\ UNCHANGED <<kvars, lvars>>

\* ManagerExecutor.cancel: invoked by the request handler at any time after
\* the task was accepted
MCancel ==
    /\ m_pc # "idle"
    /\ m_cancels < MaxCancels
    /\ m_events' = Append(m_events, CanceledEvent(m_ids))
    /\ m_cancels' = m_cancels + 1
    /\ UNCHANGED <<m_pc, m_ids, m_state, node, ran, m_hist>>
    /\ UNCHANGED <<cvars, wvars, rvars, evars, tvars>>
    /\ UNCHANGED <<kvars, lvars>>

\* ------------------------------------------- the workers' execute, cancel

\* execute up to its first suspension: the worker graph's only node awaits
\* the completion service
WExecuteStart ==
    /\ w_pc = "accepted"
    /\ w_pc' = "process"
    /\ UNCHANGED <<w_agent, w_ids, w_out, w_events, w_cancels>>
    /\ UNCHANGED <<mvars, cvars, rvars, evars, tvars>>
    /\ UNCHANGED <<kvars, lvars>>

\* answer_*_question after the completion service answered
WCompletionReturn ==
    /\ w_pc = "process"
    /\ \E answer \in Answers : w_out' = answer
    /\ w_pc' = "emit_artifact"
    /\ UNCHANGED <<w_agent, w_ids, w_events, w_cancels>>
    /\ UNCHANGED <<mvars, cvars, rvars, evars, tvars>>
    /\ UNCHANGED <<kvars, lvars>>

\* the completion service call raises: nothing catches it in the node, the
\* graph or execute
WCompletionFail ==
    /\ w_pc = "process"
    /\ w_pc' = "raised"
    /\ UNCHANGED <<w_agent, w_ids, w_out, w_events, w_cancels>>
    /\ UNCHANGED <<mvars, cvars, rvars, evars, tvars>>
    /\ UNCHANGED <<kvars, lvars>>

WEmitArtifact ==
    /\ w_pc = "emit_artifact"
    /\ w_events' = Append(w_events, ArtifactEvent(w_ids, w_out))
    /\ w_pc' = "emit_status"
    /\ UNCHANGED <<w_agent, w_ids, w_out, w_cancels>>
    /\ UNCHANGED <<mvars, cvars, rvars, evars, tvars>>
    /\ UNCHANGED <<kvars, lvars>>

WEmitStatus ==
    /\ w_pc = "emit_status"
    /\ w_events' = Append(w_events, CompletedEvent(w_ids))
    /\ w_pc' = "done"
    /\ UNCHANGED <<w_agent, w_ids, w_out, w_cancels>>
    /\ UNCHANGED <<mvars, cvars, rvars, evars, tvars>>
    /\ UNCHANGED <<kvars, lvars>>

\* the worker executor's cancel
WCancel ==
    /\ w_pc # "idle"
    /\ w_cancels < MaxCancels
    /\ w_events' = Append(w_events, CanceledEvent(w_ids))
    /\ w_cancels' = w_cancels + 1
    /\ UNCHANGED <<w_pc, w_agent, w_ids, w_out>>
    /\ UNCHANGED <<mvars, cvars, rvars, evars, tvars>>
    /\ UNCHANGED <<kvars, lvars>>

\* ---------------------------------------- terminal client: send_question

NoResponseReceivedEmpty == <<"">>

NoResponseReceived == <<"No response received.">>
ErrorConnecting ==
    <<"Error connecting to Agent A: ...",
      "Make sure agent_a_manager.py is running with --server flag.">>
ErrorDuringCommunication == <<"Error during communication: ...">>

\* the transport ends the manager's stream once a final status event was
\* delivered, or after it delivered the failed task of an execute that raised
TStreamEnded ==
    \/ t_failed_seen
    \/ \E i \in 1..t_rd : IsFinal(m_events[i])

\* send_question up to  await ClientFactory.connect
TSendQuestion ==
    /\ t_pc = "idle"
    /\ t_conn' = "connecting"
    /\ t_pc' = "connect"
    /\ UNCHANGED <<t_rd, response_text, t_failed_seen>>
    /\ UNCHANGED <<mvars, cvars, wvars, rvars, evars>>
    /\ UNCHANGED <<kvars, lvars>>

\* connect returned: the message is sent to the manager, which accepts a task
TConnectOk ==
    /\ t_pc = "connect"
    /\ t_conn' = "open"
    /\ response_text' = NoResponseReceived
    /\ t_pc' = "drain"
    /\ m_pc' = "accepted"
    /\ UNCHANGED <<t_rd, t_failed_seen>>
    /\ UNCHANGED <<m_ids, m_state, node, ran, m_events, m_cancels, m_hist>>
    /\ UNCHANGED <<cvars, wvars, rvars, evars>>
    /\ UNCHANGED <<kvars, lvars>>

\* connect raised: the except clause returns the error text
TConnectFail ==
    /\ t_pc = "connect"
    /\ t_conn' = "none"
    /\ response_text' = ErrorConnecting
    /\ t_pc' = "returned"
    /\ UNCHANGED <<t_rd, t_failed_seen>>
    /\ UNCHANGED <<mvars, cvars, wvars, rvars, evars>>
    /\ UNCHANGED <<kvars, lvars>>

\* one iteration of the loop over the manager's events
TDrainEvent ==
    /\ t_pc = "drain"
    /\ ~t_failed_seen
    /\ t_rd < Len(m_events)
    /\ t_rd' = t_rd + 1
    /\ response_text' = ExtractText(Snapshot(m_events, t_rd + 1), response_text)
    /\ UNCHANGED <<t_pc, t_conn, t_failed_seen>>
    /\ UNCHANGED <<mvars, cvars, wvars, rvars, evars>>
    /\ UNCHANGED <<kvars, lvars>>

\* one iteration on the task of an execute that raised: status failed, the
\* artifacts it had
TDrainFailed ==
    /\ t_pc = "drain"
    /\ m_pc = "raised"
    /\ t_rd = Len(m_events)
    /\ ~TStreamEnded
    /\ t_failed_seen' = TRUE
    /\ response_text' = ExtractText(Snapshot(m_events, t_rd), response_text)
    /\ UNCHANGED <<t_pc, t_conn, t_rd>>
    /\ UNCHANGED <<mvars, cvars, wvars, rvars, evars>>
    /\ UNCHANGED <<kvars, lvars>>

\* the stream raises: the except clause stores the error text, the finally
\* clause closes the client
TDrainError ==
    /\ t_pc = "drain"
    /\ ~TStreamEnded
    /\ response_text' = ErrorDuringCommunication
    /\ t_conn' = "closed"
    /\ t_pc' = "returned"
    /\ UNCHANGED <<t_rd, t_failed_seen>>
    /\ UNCHANGED <<mvars, cvars, wvars, rvars, evars>>
    /\ UNCHANGED <<kvars, lvars>>

\* the loop ends: the finally clause closes the client, response_text is
\* returned
TDrainEnd ==
    /\ t_pc = "drain"
    /\ TStreamEnded
    /\ t_conn' = "closed"
    /\ t_pc' = "returned"
    /\ UNCHANGED <<t_rd, response_text, t_failed_seen>>
    /\ UNCHANGED <<mvars, cvars, wvars, rvars, evars>>
    /\ UNCHANGED <<kvars, lvars>>

Next ==
    \/ TSendQuestion
    \/ TConnectOk
    \/ TConnectFail
    \/ TDrainEvent
    \/ TDrainFailed
    \/ TDrainError
    \/ TDrainEnd
    \/ ExecuteStart
    \/ RouteReturn
    \/ RouteFail
    \/ DelegateStart
    \/ ConnectOk
    \/ ConnectFail
    \/ DrainEvent
    \/ DrainFailed
    \/ DrainError
    \/ DrainEnd
    \/ Finalize
    \/ MEmitArtifact
    \/ MEmitStatus
    \/ MCancel
    \/ WExecuteStart
    \/ WCompletionReturn
    \/ WCompletionFail
    \/ WEmitArtifact
    \/ WEmitStatus
    \/ WCancel

Spec == Init /\ [][Next]_vars

\* ------------------------------------------- route_question on its inputs

\* the pieces classifier outputs are concatenated from
Tokens ==
    {<<"T", "E", "C", "H">>, <<"t", "e", "c", "h">>, <<"H", "R">>,
     <<"h">>, <<"R">>, <<"D", "E", "S", "I", "G", "N">>,
     <<"d", "e", "S", "i", "g", "n">>, <<"U", "N", "S", "U", "R", "E">>,
     <<" ">>, <<".">>}

RECURSIVE Strings(_)
\* the concatenations of at most n tokens
Strings(n) ==
    IF n = 0 THEN {<<>>}
    ELSE LET shorter == Strings(n - 1)
         IN  shorter \cup {s \o t : s \in shorter, t \in Tokens}

RouteInputs == {Content(s) : s \in Strings(MaxTokens)} \cup {NoContent}

InitRoute ==
    /\ IdleManager
    /\ IdleWorker
    /\ m_ids = [task_id |-> "t1", context_id |-> "c1"]
    /\ IdleCodec
    /\ IdleClient
    /\ IdleTasks
    /\ IdleMain
    /\ r_content \in RouteInputs
    /\ r_result = "pending"

\* route_question returns {"routed_to": routed_to}
RouteQuestionReturns ==
    /\ r_result = "pending"
    /\ ~RouteRaises(r_content)
    /\ r_result' = Normalize(Decision(r_content.chars))
    /\ UNCHANGED <<r_content, mvars, cvars, wvars, evars, tvars>>
    /\ UNCHANGED <<kvars, lvars>>

\* route_question raises on  content.strip()
RouteQuestionRaises ==
    /\ r_result = "pending"
    /\ RouteRaises(r_content)
    /\ r_result' = "raised"
    /\ UNCHANGED <<r_content, mvars, cvars, wvars, evars, tvars>>
    /\ UNCHANGED <<kvars, lvars>>

NextRoute == RouteQuestionReturns \/ RouteQuestionRaises

SpecRoute == InitRoute /\ [][NextRoute]_vars

\* ------------------------------------- the payload's way through the code

QAlphabet == {"a", Quote, Backslash, Newline, EAcute}

RECURSIVE SeqsUpTo(_, _)
\* the sequences of at most n elements of S
SeqsUpTo(S, n) ==
    IF n = 0 THEN {<<>>}
    ELSE LET shorter == SeqsUpTo(S, n - 1)
         IN  shorter \cup {Append(q, c) : q \in shorter, c \in S}

\* the questions a caller asks
Questions == SeqsUpTo(QAlphabet, MaxQLen)

\* the turns a caller holds: {role, content}, both strings
Turns ==
    {Turn(JStr(r), JStr(c)) : r \in {USER, ASSISTANT},
                              c \in {<<"h", "i">>, <<Quote, "}", Backslash>>}}

\* the conversation histories a caller holds, oldest turn first
Histories == {JArr(h) : h \in SeqsUpTo(Turns, MaxTurns)}

\* a quoted word
Lit(chars) == <<Quote>> \o chars \o <<Quote>>

\* payloads that no format function of this code made: text that is no JSON
PlainTexts ==
    { <<>>,
      <<"h", "i">>,
      <<"[", "5", ",", "]">>,
      <<"{">> \o Lit(CQ),
      <<"{">> \o Lit(CQ) \o <<":", " ", "}">>,
      <<"{">> \o Lit(CQ) \o <<":">> \o Lit(<<"a">>) \o <<"}", " ", "x">> }

\* JSON that is a number, null, a string, an array
NonObjectJson ==
    { <<"5">>,
      <<"n", "u", "l", "l">>,
      Lit(<<"a">>),
      <<"[", "]">>,
      <<"[", "5", "]">>,
      <<"[", "[", "[", "5", "]", "]", "]">> }

\* JSON objects without the key current_question
ObjectsWithoutKey ==
    { <<"{", "}">>,
      <<"{">> \o Lit(<<"a">>) \o <<":", "5", "}">>,
      <<"{">> \o Lit(CH) \o <<":", "[", "]", "}">> }

\* JSON nested deeper than the interpreter's recursion limit
DeepJson ==
    { <<"[", "[", "[", "[", "[", "5", "]", "]", "]", "]", "]">>,
      <<"[", "[", "[", "[", "[", "[">> }

\* envelopes as the format functions make them, written by another caller
WellShaped ==
    { <<"{">> \o Lit(CQ) \o <<":">> \o Lit(<<"a">>) \o <<"}">>,
      <<" ", "{", " ">> \o Lit(CQ) \o <<" ", ":", " ">> \o Lit(<<"a">>)
          \o <<" ", "}", "\n">>,
      <<"{">> \o Lit(CQ) \o <<":">> \o Lit(<<"a">>) \o <<",">> \o Lit(CQ)
          \o <<":">> \o Lit(<<"b">>) \o <<"}">>,
      <<"{">> \o Lit(CQ) \o <<":">> \o Lit(<<"a">>) \o <<",">> \o Lit(CH)
          \o <<":", "[", "{">> \o Lit(ROLE) \o <<":">> \o Lit(USER)
          \o <<",">> \o Lit(CONTENT) \o <<":">> \o Lit(<<"b">>)
          \o <<"}", "]", "}">> }

\* JSON objects with the key current_question whose current_question is no
\* string
QuestionNotString ==
    { <<"{">> \o Lit(CQ) \o <<":", "5", "}">>,
      <<"{">> \o Lit(CQ) \o <<":", "n", "u", "l", "l", "}">>,
      <<"{">> \o Lit(CQ) \o <<":", "[", "5", "]", "}">> }

\* JSON objects with the key current_question whose conversation_history is
\* no list of {role, content} turns
HistoryNotTurns ==
    { <<"{">> \o Lit(CQ) \o <<":">> \o Lit(<<"a">>) \o <<",">> \o Lit(CH)
          \o <<":">> \o Lit(<<"a">>) \o <<"}">>,
      <<"{">> \o Lit(CQ) \o <<":">> \o Lit(<<"a">>) \o <<",">> \o Lit(CH)
          \o <<":", "n", "u", "l", "l", "}">>,
      <<"{">> \o Lit(CQ) \o <<":">> \o Lit(<<"a">>) \o <<",">> \o Lit(CH)
          \o <<":", "[", "5", "]", "}">>,
      <<"{">> \o Lit(CQ) \o <<":">> \o Lit(<<"a">>) \o <<",">> \o Lit(CH)
          \o <<":", "[", "{">> \o Lit(ROLE) \o <<":">> \o Lit(USER)
          \o <<"}", "]", "}">>,
      <<"{">> \o Lit(CQ) \o <<":">> \o Lit(<<"a">>) \o <<",">> \o Lit(CH)
          \o <<":", "{", "}", "}">> }

RawInputs ==
    PlainTexts \cup NonObjectJson \cup ObjectsWithoutKey \cup DeepJson
        \cup WellShaped \cup QuestionNotString \cup HistoryNotTurns

CodecInputs ==
    {[kind |-> "pair", q |-> q, h |-> h, raw |-> <<>>] :
        q \in Questions, h \in Histories}
    \cup {[kind |-> "raw", q |-> <<>>, h |-> JArr(<<>>), raw |-> r] :
            r \in RawInputs}

InitCodec ==
    /\ IdleManager
    /\ IdleWorker
    /\ IdleClient
    /\ IdleTasks
    /\ IdleMain
    /\ m_ids = [task_id |-> "t1", context_id |-> "c1"]
    /\ r_content = NoContent
    /\ r_result = "unused"
    /\ e_pc = "caller"
    /\ e_in \in CodecInputs
    /\ e_text = <<>>
    /\ e_mgr = NoParse
    /\ e_wtext = <<>>
    /\ e_wrk = NoParse
    /\ e_msgs = Messages(<<>>)

\* terminal client, send_question: the text part of the message
ClientFormat ==
    /\ e_pc = "caller"
    /\ e_in.kind = "pair"
    /\ e_text' = format_message_with_history(JStr(e_in.q), e_in.h)
    /\ e_pc' = "manager"
    /\ UNCHANGED <<e_in, e_mgr, e_wtext, e_wrk, e_msgs>>
    /\ UNCHANGED <<mvars, cvars, wvars, rvars, tvars>>
    /\ UNCHANGED <<kvars, lvars>>

\* another caller sends a text of its own
RawSend ==
    /\ e_pc = "caller"
    /\ e_in.kind = "raw"
    /\ e_text' = e_in.raw
    /\ e_pc' = "manager"
    /\ UNCHANGED <<e_in, e_mgr, e_wtext, e_wrk, e_msgs>>
    /\ UNCHANGED <<mvars, cvars, wvars, rvars, tvars>>
    /\ UNCHANGED <<kvars, lvars>>

\* ManagerExecutor.execute: raw_input, parse_input_message, the two prints
ManagerParse ==
    /\ e_pc = "manager"
    /\ e_mgr' = parse_input_message(UserInput(e_text))
    /\ e_pc' = IF e_mgr'.raised \/ ~HasLen(e_mgr'.h) THEN "raised"
               ELSE "delegate"
    /\ UNCHANGED <<e_in, e_text, e_wtext, e_wrk, e_msgs>>
    /\ UNCHANGED <<mvars, cvars, wvars, rvars, tvars>>
    /\ UNCHANGED <<kvars, lvars>>

\* call_*_expert: the text part of the message to the worker
ManagerFormat ==
    /\ e_pc = "delegate"
    /\ e_wtext' = format_question_with_history(e_mgr.q, e_mgr.h)
    /\ e_pc' = "worker"
    /\ UNCHANGED <<e_in, e_text, e_mgr, e_wrk, e_msgs>>
    /\ UNCHANGED <<mvars, cvars, wvars, rvars, tvars>>
    /\ UNCHANGED <<kvars, lvars>>

\* the worker's execute: raw_input, parse_input_message, the two prints
WorkerParse ==
    /\ e_pc = "worker"
    /\ e_wrk' = parse_input_message(UserInput(e_wtext))
    /\ e_pc' = IF e_wrk'.raised \/ ~HasLen(e_wrk'.h) THEN "raised"
               ELSE "prompt"
    /\ UNCHANGED <<e_in, e_text, e_mgr, e_wtext, e_msgs>>
    /\ UNCHANGED <<mvars, cvars, wvars, rvars, tvars>>
    /\ UNCHANGED <<kvars, lvars>>

\* answer_*_question up to the completion service call
WorkerPrompt ==
    /\ e_pc = "prompt"
    /\ e_msgs' = BuildMessages(e_wrk.q, e_wrk.h)
    /\ e_pc' = IF e_msgs'.raised THEN "raised" ELSE "done"
    /\ UNCHANGED <<e_in, e_text, e_mgr, e_wtext, e_wrk>>
    /\ UNCHANGED <<mvars, cvars, wvars, rvars, tvars>>
    /\ UNCHANGED <<kvars, lvars>>

NextCodec ==
    \/ ClientFormat
    \/ RawSend
    \/ ManagerParse
    \/ ManagerFormat
    \/ WorkerParse
    \/ WorkerPrompt

SpecCodec == InitCodec /\ [][NextCodec]_vars

\* --------------------------------- several tasks on one endpoint process

\* the questions of the tasks' messages
TaskMessages == {<<"question-1">>, <<"question-2">>}

\* what the completion service makes of the messages it is given
AnswerTo(prompt) == <<"answer to">> \o prompt

ContextOfFirstTask(t) == 1

\* the RequestContext that execute and cancel of task t are called with
ContextOf(t) == t

\* a task the request handler accepted: its ids, its message
AcceptedTask(t, context_id, text) ==
    [pc |-> "accepted",
     ids |-> [task_id |-> ToString(t), context_id |-> context_id],
     msg |-> text,
     question |-> NoText,
     prompt |-> NoText,
     out |-> NoText,
     events |-> <<>>,
     cancels |-> 0]

InitTasks ==
    /\ IdleManager
    /\ IdleWorker
    /\ IdleCodec
    /\ IdleClient
    /\ IdleMain
    /\ m_ids = [task_id |-> "t1", context_id |-> "c1"]
    /\ r_content = NoContent
    /\ r_result = "unused"
    /\ \E c \in [1..NumTasks -> ContextIds], q \in [1..NumTasks -> TaskMessages] :
         tasks = [t \in 1..NumTasks |-> AcceptedTask(t, c[t], q[t])]

\* execute of task t up to its first suspension: the question is parsed from
\* the task's message and handed to the graph, whose node awaits the
\* completion service
KExecuteStart(t) ==
    /\ tasks[t].pc = "accepted"
    /\ tasks' = [tasks EXCEPT ![t].pc = "process",
                              ![t].question = tasks[ContextOf(t)].msg,
                              ![t].prompt = tasks[ContextOf(t)].msg]
    /\ UNCHANGED <<mvars, cvars, wvars, rvars, evars, tvars, lvars>>

\* the completion service answered the call of task t
KCompletionReturn(t) ==
    /\ tasks[t].pc = "process"
    /\ tasks' = [tasks EXCEPT ![t].pc = "emit_artifact",
                              ![t].out = AnswerTo(tasks[t].prompt)]
    /\ UNCHANGED <<mvars, cvars, wvars, rvars, evars, tvars, lvars>>

\* the completion service call of task t raised
KCompletionFail(t) ==
    /\ tasks[t].pc = "process"
    /\ tasks' = [tasks EXCEPT ![t].pc = "raised"]
    /\ UNCHANGED <<mvars, cvars, wvars, rvars, evars, tvars, lvars>>

\* await event_queue.enqueue_event(artifact_event) of task t
KEmitArtifact(t) ==
    /\ tasks[t].pc = "emit_artifact"
    /\ tasks' = [tasks EXCEPT
                   ![t].pc = "emit_status",
                   ![t].events = Append(@, ArtifactEvent(tasks[ContextOf(t)].ids,
                                                         tasks[t].out))]
    /\ UNCHANGED <<mvars, cvars, wvars, rvars, evars, tvars, lvars>>

\* await event_queue.enqueue_event(status_event) of task t
KEmitStatus(t) ==
    /\ tasks[t].pc = "emit_status"
    /\ tasks' = [tasks EXCEPT
                   ![t].pc = "done",
                   ![t].events = Append(@, CompletedEvent(tasks[ContextOf(t)].ids))]
    /\ UNCHANGED <<mvars, cvars, wvars, rvars, evars, tvars, lvars>>

\* cancel of task t
KCancel(t) ==
    /\ tasks[t].cancels < MaxCancels
    /\ tasks' = [tasks EXCEPT
                   ![t].cancels = @ + 1,
                   ![t].events = Append(@, CanceledEvent(tasks[ContextOf(t)].ids))]
    /\ UNCHANGED <<mvars, cvars, wvars, rvars, evars, tvars, lvars>>

NextTasks ==
    \E t \in DOMAIN tasks :
        \/ KExecuteStart(t)
        \/ KCompletionReturn(t)
        \/ KCompletionFail(t)
        \/ KEmitArtifact(t)
        \/ KEmitStatus(t)
        \/ KCancel(t)

SpecTasks == InitTasks /\ [][NextTasks]_vars

\* -------------------------------------------- terminal client: main

\* a line that str.strip() empties
BlankLines == {"", " "}

\* line.startswith("box-bottom character")
StartsWithBoxBottom(line) == line \in {"box-bottom", "box-bottom more"}

\* line.startswith("three rule characters")
StartsWithRule(line) == line \in {"rule", "rule more"}

RECURSIVE LStripText(_)
\* str.lstrip() of a text whose lines have no blanks at their ends
LStripText(text) ==
    IF text # <<>> /\ Head(text) \in BlankLines THEN LStripText(Tail(text))
    ELSE text

RECURSIVE RStripText(_)
RStripText(text) ==
    IF text # <<>> /\ text[Len(text)] \in BlankLines
    THEN RStripText(SubSeq(text, 1, Len(text) - 1))
    ELSE text

\* str.strip()
StripText(text) == RStripText(LStripText(text))

\* the index of the first line that starts with the box's bottom edge, or 0
FirstBoxBottom(lines) ==
    IF \E i \in DOMAIN lines : StartsWithBoxBottom(lines[i])
    THEN CHOOSE i \in DOMAIN lines :
             /\ StartsWithBoxBottom(lines[i])
             /\ \A j \in 1..(i - 1) : ~StartsWithBoxBottom(lines[j])
    ELSE 0

\* extract_assistant_response
extract_assistant_response(text) ==
    LET lines == StripText(text)
        k == FirstBoxBottom(lines)
        content_lines ==
            IF k = 0 THEN <<>>
            ELSE SelectSeq(SubSeq(lines, k + 1, Len(lines)),
                           LAMBDA line : /\ ~StartsWithBoxBottom(line)
                                         /\ ~StartsWithRule(line))
    IN  IF content_lines # <<>> THEN StripText(content_lines) ELSE text

\* what uuid4().hex can be when the module is loaded
SessionIds == {"s1", "s2"}

\* what the user types at the prompt
TypedLines ==
    {"", " ", "quit", "EXIT", "q", "clear", "Clear", "question-1", "question-2"}

\* input(...).strip()
StripLine(typed) == IF typed \in BlankLines THEN "" ELSE typed

\* question.lower()
LowerLine(question) ==
    CASE question = "EXIT" -> "exit"
      [] question = "Clear" -> "clear"
      [] OTHER -> question

ClientMessageFreshContext(context_id, question, history) ==
    [context_id |-> "fresh", role |-> "user", current_question |-> question,
     conversation_history |-> history]

\* send_question: the message, its text part as the (question, history) pair
\* format_message_with_history encodes
ClientMessage(context_id, question, history) ==
    [context_id |-> context_id, role |-> "user", current_question |-> question,
     conversation_history |-> history]

\* the reports the manager can answer with: the routed label, the worker's
\* text
ReportCases ==
    {[label |-> "HR", w |-> <<"", "answer-2", "", "more", " ">>],
     [label |-> "HR", w |-> <<"No result from HR Expert.">>],
     [label |-> "TECH", w |-> <<"a", "rule more", "b">>],
     [label |-> "DESIGN", w |-> <<"box-bottom more", "c">>]}

\* how send_question can end: whether the message was sent, whether the
\* manager delegated (label, w), what is returned
SendOutcomes ==
    {[message_sent |-> FALSE, label |-> None, w |-> NoText,
      response |-> ErrorConnecting],
     [message_sent |-> TRUE, label |-> None, w |-> NoText,
      response |-> ErrorDuringCommunication],
     [message_sent |-> TRUE, label |-> None, w |-> NoText,
      response |-> NoResponseReceived]}
    \cup {[message_sent |-> TRUE, label |-> c.label, w |-> c.w,
           response |-> Report(c.label, c.w)] : c \in ReportCases}

AppendExchangeAssistantFirst(history, question, assistant_content) ==
    history \o <<[role |-> "assistant", content |-> assistant_content],
                 [role |-> "user", content |-> question]>>

\* main: the two conversation_history.append calls
AppendExchange(history, question, assistant_content) ==
    history \o <<[role |-> "user", content |-> question],
                 [role |-> "assistant", content |-> assistant_content]>>

\* one line main has read, and what became of it
Logged(typed, kind, outcome) ==
    [typed |-> typed, kind |-> kind, message_sent |-> outcome.message_sent,
     label |-> outcome.label, w |-> outcome.w, response |-> outcome.response]

NoOutcome ==
    [message_sent |-> FALSE, label |-> None, w |-> NoText, response |-> NoText]

InitClient ==
    /\ IdleManager
    /\ IdleWorker
    /\ IdleCodec
    /\ IdleClient
    /\ IdleTasks
    /\ m_ids = [task_id |-> "t1", context_id |-> "c1"]
    /\ r_content = NoContent
    /\ r_result = "unused"
    /\ l_pc = "input"
    /\ SESSION_ID \in SessionIds
    /\ conversation_history = <<>>
    /\ l_sent = <<>>
    /\ l_log = <<>>

\* input raises EOFError or KeyboardInterrupt: break
MainEOF ==
    /\ l_pc = "input"
    /\ l_pc' = "exited"
    /\ UNCHANGED <<SESSION_ID, conversation_history, l_sent, l_log>>
    /\ UNCHANGED <<mvars, cvars, wvars, rvars, evars, tvars, kvars>>

\* if not question: continue
MainEmpty ==
    /\ l_pc = "input"
    /\ Len(l_log) < MaxInputs
    /\ \E typed \in TypedLines :
         /\ StripLine(typed) = ""
         /\ l_log' = Append(l_log, Logged(typed, "empty", NoOutcome))
    /\ UNCHANGED <<l_pc, SESSION_ID, conversation_history, l_sent>>
    /\ UNCHANGED <<mvars, cvars, wvars, rvars, evars, tvars, kvars>>

\* quit, exit, q: break
MainQuit ==
    /\ l_pc = "input"
    /\ Len(l_log) < MaxInputs
    /\ \E typed \in TypedLines :
         /\ StripLine(typed) # ""
         /\ LowerLine(StripLine(typed)) \in {"quit", "exit", "q"}
         /\ l_log' = Append(l_log, Logged(typed, "quit", NoOutcome))
    /\ l_pc' = "exited"
    /\ UNCHANGED <<SESSION_ID, conversation_history, l_sent>>
    /\ UNCHANGED <<mvars, cvars, wvars, rvars, evars, tvars, kvars>>

\* clear: conversation_history.clear()
MainClear ==
    /\ l_pc = "input"
    /\ Len(l_log) < MaxInputs
    /\ \E typed \in TypedLines :
         /\ StripLine(typed) # ""
         /\ LowerLine(StripLine(typed)) \notin {"quit", "exit", "q"}
         /\ LowerLine(StripLine(typed)) = "clear"
         /\ l_log' = Append(l_log, Logged(typed, "clear", NoOutcome))
    /\ conversation_history' = <<>>
    /\ UNCHANGED <<l_pc, SESSION_ID, l_sent>>
    /\ UNCHANGED <<mvars, cvars, wvars, rvars, evars, tvars, kvars>>

\* a question: send_question, extract_assistant_response, the two appends
MainQuestion ==
    /\ l_pc = "input"
    /\ Len(l_log) < MaxInputs
    /\ \E typed \in TypedLines, outcome \in SendOutcomes :
         LET question == <<StripLine(typed)>>
             response == outcome.response
             assistant_content == extract_assistant_response(response)
         IN  /\ StripLine(typed) # ""
             /\ LowerLine(StripLine(typed)) \notin {"quit", "exit", "q", "clear"}
             /\ l_sent' =
                  IF outcome.message_sent
                  THEN Append(l_sent, ClientMessage(SESSION_ID, question,
                                                    conversation_history))
                  ELSE l_sent
             /\ sent' =
                  IF outcome.label # None
                  THEN Append(sent, MessageTo(UrlOf(route_to_expert(outcome.label))))
                  ELSE sent
             /\ conversation_history' =
                  AppendExchange(conversation_history, question, assistant_content)
             /\ l_log' = Append(l_log, Logged(typed, "question", outcome))
    /\ UNCHANGED <<l_pc, SESSION_ID>>
    /\ UNCHANGED <<conn, rd, worker_text, failed_seen>>
    /\ UNCHANGED <<mvars, wvars, rvars, evars, tvars, kvars>>

NextClient ==
    \/ MainEOF
    \/ MainEmpty
    \/ MainQuit
    \/ MainClear
    \/ MainQuestion

SpecClient == InitClient /\ [][NextClient]_vars

\* ------------------------------------------------------------ properties

FinalIdx(events) == {i \in 1..Len(events) : IsFinal(events[i])}

\* at most one final status event, nothing after it, and no later final
\* status event gives the task another state
OneTerminalLast(events) ==
    /\ Cardinality(FinalIdx(events)) <= 1
    /\ \A i \in FinalIdx(events) : i = Len(events)
    /\ \A i, j \in FinalIdx(events) : events[i].state = events[j].state

\* C1: for a task, over every interleaving of execute and cancel, at most
\* one terminal status event (final=true) is enqueued, it is the last event
\* of the queue, and the task's status does not change once terminal.
C1_OneTerminalEventLast ==
    /\ OneTerminalLast(m_events)
    /\ OneTerminalLast(w_events)

\* cancel came before execute emitted completed: the queue ends with the
\* canceled status event and holds no artifact event after it
CancelWins(events) ==
    \A i \in 1..Len(events) :
        (/\ IsStatus(events[i], "canceled")
         /\ \A k \in 1..(i - 1) : ~IsStatus(events[k], "completed"))
        => /\ IsStatus(events[Len(events)], "canceled")
           /\ events[Len(events)].final
           /\ \A j \in (i + 1)..Len(events) : ~IsArtifact(events[j])

\* C2: if cancel is invoked before execute has emitted the completed status,
\* the task's event sequence ends with (canceled, final=true) and no
\* artifact event is emitted after the cancel.
C2_CancelBeforeCompletionWins ==
    /\ CancelWins(m_events)
    /\ CancelWins(w_events)

\* nothing follows the completed status event
NothingAfterCompleted(events) ==
    \A i \in 1..Len(events) :
        IsStatus(events[i], "completed") => i = Len(events)

\* C3: if cancel is invoked after execute has emitted the completed status,
\* no further event (no canceled status event) is added to the sequence.
C3_CancelAfterCompletionIsNoop ==
    /\ NothingAfterCompleted(m_events)
    /\ NothingAfterCompleted(w_events)

\* the two events of a successful run
SuccessEvents(ids, text) ==
    << [kind |-> "artifact", task_id |-> ids.task_id,
        context_id |-> ids.context_id,
        parts |-> <<[type |-> "text", text |-> text]>>, last_chunk |-> TRUE],
       [kind |-> "status", task_id |-> ids.task_id,
        context_id |-> ids.context_id, state |-> "completed",
        final |-> TRUE] >>

\* with no cancel, the queue holds nothing until execute emits, then the
\* artifact event, then the artifact event and the completed status event
SuccessRun(pc, events, ids, text) ==
    /\ pc = "done" => events = SuccessEvents(ids, text)
    /\ pc = "emit_status" => events = SubSeq(SuccessEvents(ids, text), 1, 1)
    /\ pc \notin {"done", "emit_status"} => events = <<>>

\* C4: on a successful run (the completion service returns, no cancel) the
\* execute of every endpoint, worker or manager, emits exactly two events:
\* an artifact event with one text part and last_chunk=true, then a status
\* event (completed, final=true), both with the request's task_id and
\* context_id.
C4_SuccessEmitsArtifactThenCompleted ==
    /\ m_cancels = 0 => SuccessRun(m_pc, m_events, m_ids, m_state.final_output)
    /\ w_cancels = 0 => SuccessRun(w_pc, w_events, w_ids, w_out)

C4_Witness ==
    /\ m_pc = "done" /\ m_cancels = 0 /\ Len(m_events) = 2
    /\ w_pc = "done" /\ w_cancels = 0 /\ Len(w_events) = 2
    /\ w_agent = "D"

HasFailedFinal(events) ==
    \E i \in 1..Len(events) : IsStatus(events[i], "failed") /\ events[i].final

NoArtifact(events) == \A i \in 1..Len(events) : ~IsArtifact(events[i])

\* C5: when the completion service call of a worker's processing step fails
\* (the only way the worker's execute comes to an end other than done), the
\* worker's queue holds a terminal status event (failed, final=true) and no
\* artifact event.
C5_WorkerFailureEmitsFailed ==
    w_pc = "raised" => HasFailedFinal(w_events) /\ NoArtifact(w_events)

DelegationFailures == {"connect_error", "stream_error", "worker_failed"}

DelegateRan == SelectSeq(ran, LAMBDA n : n \in DelegateNodes)

\* C6: for every kind of worker delegation failure (connect error, error
\* while draining the stream, worker reporting failed with no artifact) the
\* delegate step does not raise, worker_response is the placeholder of the
\* expert, and the manager's task ends with a completed status.
C6_DelegationFailureRecovered ==
    m_hist.deleg \in DelegationFailures =>
        /\ m_pc # "raised"
        /\ m_pc \in {"finalize", "emit_artifact", "emit_status", "done"}
             => m_state.worker_response = Placeholder(DelegateRan[1])
        /\ m_pc = "done" /\ m_cancels = 0
             => IsStatus(m_events[Len(m_events)], "completed")

\* C7: when the completion service call of the route step fails, no delegate
\* node runs, no default label is stored, and the manager's task gets a
\* terminal failed status event.
C7_RouteFailureSurfacesFailed ==
    m_hist.route_failed =>
        /\ DelegateRan = <<>>
        /\ m_state.routed_to = None
        /\ HasFailedFinal(m_events)

\* the delegate node of each label
NodeOfLabel(l) ==
    CASE l = "TECH" -> "call_tech_expert"
      [] l = "HR" -> "call_hr_expert"
      [] l = "DESIGN" -> "call_design_expert"

\* C8: in every invocation of the manager graph in which route returns,
\* exactly one delegate node runs, once, and it is the node of the routed_to
\* label that route stored; before route returns no delegate node runs.
C8_ExactlyOneDelegate ==
    /\ Len(DelegateRan) <= 1
    /\ m_state.routed_to = None => DelegateRan = <<>>
    /\ m_state.routed_to # None =>
         /\ m_state.routed_to \in Labels
         /\ m_pc # "delegate" => DelegateRan = <<NodeOfLabel(m_state.routed_to)>>
         /\ m_pc = "delegate" => node = NodeOfLabel(m_state.routed_to)

C8_Witness ==
    /\ m_pc = "done"
    /\ m_state.routed_to = "DESIGN"
    /\ ran = <<"route", "call_design_expert", "finalize">>

\* sub occurs in s in some letter case
ContainsAnyCase(s, sub) ==
    \E i \in 0..(Len(s) - Len(sub)) :
        \A k \in 1..Len(sub) : UpperChar(s[i + k]) = sub[k]

\* the labels found in a classifier output
LabelsIn(content) ==
    IF content.absent THEN {}
    ELSE {l \in Labels : ContainsAnyCase(content.chars, LabelChars(l))}

\* TECH before HR before DESIGN
Priority(l) == CASE l = "TECH" -> 1 [] l = "HR" -> 2 [] l = "DESIGN" -> 3

\* C9 (as claimed): for each label L and every classifier output that
\* contains L in any letter case at any position, route_question selects L.
C9_AnyContainedLabelSelected ==
    r_result # "pending" =>
        \A l \in LabelsIn(r_content) : r_result = l

\* C9 (amended): for each label L and every classifier output that contains
\* L in any letter case at any position and contains no label that comes
\* before L in the order TECH, HR, DESIGN, route_question selects L.
C9_FirstContainedLabelSelected ==
    r_result # "pending" =>
        \A l \in LabelsIn(r_content) :
            (\A h \in LabelsIn(r_content) : Priority(l) <= Priority(h))
                => r_result = l

C9_Witness ==
    /\ r_content = Content(<<".", "h", "R">>)
    /\ r_result = "HR"

\* C10: for every classifier output that contains none of the labels,
\* empty or absent content included, route_question yields TECH and does
\* not raise.
C10_UnrecognizedDefaultsToTech ==
    (r_result # "pending" /\ LabelsIn(r_content) = {}) => r_result = "TECH"

\* C11: a question q and a history h of {role, content} turns that the
\* terminal client encodes with format_message_with_history are what the
\* manager's parse_input_message returns, and what the manager encodes with
\* format_question_with_history is what the worker's parse_input_message
\* returns: decode(encode(q, h)) = (q, h) on both hops, and no hop raises.
C11_DecodeEncodeIsIdentity ==
    e_in.kind = "pair" =>
        /\ e_pc # "raised"
        /\ e_pc \in {"delegate", "worker", "prompt", "done"} =>
               e_mgr = Parsed(JStr(e_in.q), e_in.h)
        /\ e_pc \in {"prompt", "done"} =>
               e_wrk = Parsed(JStr(e_in.q), e_in.h)

\* a question with a quote, a backslash behind it, and two turns of history
\* went through both hops
C11_Witness ==
    /\ e_in.kind = "pair"
    /\ e_pc = "done"
    /\ e_in.q = <<Quote, Backslash>>
    /\ Len(e_in.h.items) >= 2
    /\ e_wrk.q.s = e_in.q

\* what parse_input_message is to return for a payload taken as a bare
\* question
BareQuestion(text) == Parsed(JStr(text), JArr(<<>>))

\* C12: parse_input_message is total: it returns without raising for every
\* input string, and returns (raw input, []) for every input that is not a
\* JSON object with the key current_question: plain text, malformed JSON,
\* a JSON number, string, array or null, an object without the key.
C12_ParseIsTotal ==
    (e_in.kind = "raw" /\ e_pc \notin {"caller", "manager"}) =>
        /\ ~e_mgr.raised
        /\ e_in.raw \in PlainTexts \cup NonObjectJson \cup ObjectsWithoutKey
                            \cup DeepJson
               => e_mgr = BareQuestion(UserInput(e_in.raw))

\* C13: a payload without the envelope shape {current_question: string,
\* conversation_history: list of {role, content}} that json.loads decodes, a
\* JSON object with the key current_question and a current_question that is
\* no string or a conversation_history that is no list of turns included, is
\* taken as a bare question: the raw payload text, with an empty history.
C13_IllShapedIsBareQuestion ==
    (/\ e_in.kind = "raw"
     /\ e_pc \notin {"caller", "manager"}
     /\ e_in.raw \in PlainTexts \cup NonObjectJson \cup ObjectsWithoutKey
                         \cup QuestionNotString \cup HistoryNotTurns)
        => e_mgr = BareQuestion(UserInput(e_in.raw))

\* C15: for the question q and the history [t1..tn] a worker received, the
\* messages passed to the completion service are [system prompt, t1, ..., tn,
\* user(q)]: n + 2 messages, the turns in their order with role and content
\* unchanged, the current question last with the role user.
C15_PromptIsSystemHistoryQuestion ==
    e_pc = "done" =>
        LET n == Len(e_wrk.h.items)
            messages == e_msgs.list
        IN  /\ ~e_msgs.raised
            /\ Len(messages) = n + 2
            /\ messages[1] = [role |-> JStr(SYSTEM), content |-> JStr(SYSTEM_PROMPT)]
            /\ \A i \in 1..n :
                 /\ messages[i + 1].role = GetKey(e_wrk.h.items[i].v, ROLE)
                 /\ messages[i + 1].content = GetKey(e_wrk.h.items[i].v, CONTENT)
            /\ messages[n + 2] = [role |-> JStr(USER), content |-> e_wrk.q]
            /\ e_in.kind = "pair" =>
                 /\ n = Len(e_in.h.items)
                 /\ messages[n + 2].content = JStr(e_in.q)
                 /\ \A i \in 1..n :
                      Turn(messages[i + 1].role, messages[i + 1].content)
                          = e_in.h.items[i].v

\* the prompt of a second turn: [system, user, assistant, user(q)]
C15_Witness ==
    /\ e_pc = "done"
    /\ e_in.kind = "pair"
    /\ Len(e_in.h.items) = 2
    /\ Len(e_msgs.list) = 4
    /\ e_msgs.list[2].role = JStr(USER)
    /\ e_msgs.list[3].role = JStr(ASSISTANT)
    /\ e_msgs.list[2].content # e_msgs.list[3].content
    /\ e_msgs.list[4].content = JStr(<<"a", Quote>>)

\* the manager's delegate function was left: by return or by an exception
DelegateLeft ==
    /\ DelegateRan # <<>>
    /\ m_pc \in {"raised", "finalize", "emit_artifact", "emit_status", "done"}

\* C14: the connection opened for one exchange is closed on every exit path
\* of the exchange (the stream ends, consuming the stream raises, connecting
\* fails), in the manager's delegate functions and in the terminal client's
\* send_question.
C14_ConnectionClosedOnEveryExit ==
    /\ DelegateLeft => conn # "open"
    /\ t_pc = "returned" => t_conn # "open"

\* C16: when finalize has run, final_output contains the name of the expert
\* that was consulted (Tech Expert for the endpoint of agent C, HR Expert for
\* agent B, Design Expert for agent D) and contains worker_response, the
\* worker's text or the placeholder, unchanged.
C16_ReportNamesExpertAndKeepsText ==
    m_pc \in {"emit_artifact", "emit_status", "done"} =>
        /\ \/ w_agent = "C" /\ Contains(m_state.final_output, <<"Tech Expert">>)
           \/ w_agent = "B" /\ Contains(m_state.final_output, <<"HR Expert">>)
           \/ w_agent = "D" /\ Contains(m_state.final_output, <<"Design Expert">>)
        /\ m_state.worker_response = worker_text
        /\ Contains(m_state.final_output, worker_text)
        /\ \E k \in DOMAIN m_state.final_output :
             /\ m_state.final_output[k] = "box-bottom"
             /\ SubSeq(m_state.final_output, k + 2, k + 1 + Len(worker_text))
                    = worker_text

\* the HR expert's two-line answer is in the report
C16_Witness ==
    /\ m_pc = "done"
    /\ w_agent = "B"
    /\ m_state.worker_response = <<"answer-2", "more">>
    /\ Contains(m_state.final_output, <<"HR Expert">>)
    /\ Contains(m_state.final_output, <<"answer-2", "more">>)

\* a status event with final = true is in the queue
HasTerminalStatus(events) == \E i \in DOMAIN events : IsFinal(events[i])

\* C17: every task an endpoint accepted has a terminal status event emitted
\* for it on every path of execute: once execute is over, by return or by
\* an exception (completion service error, classification error, delegation
\* error), the task's queue holds a status event with final = true.
C17_EveryPathEmitsTerminalStatus ==
    /\ m_pc \in {"done", "raised"} => HasTerminalStatus(m_events)
    /\ w_pc \in {"done", "raised"} => HasTerminalStatus(w_events)

\* none of the first n events but the last is a final status event
NothingReadAfterFinal(events, n) == \A i \in 1..(n - 1) : ~IsFinal(events[i])

\* C18: a caller that consumes an endpoint's event stream (a delegate
\* function of the manager, send_question of the terminal client) stops as
\* soon as it observed a status event with final = true: no event placed on
\* the stream after that event is read.
C18_NothingReadAfterTerminalStatus ==
    /\ NothingReadAfterFinal(w_events, rd)
    /\ NothingReadAfterFinal(m_events, t_rd)

\* one of the first n snapshots carries an artifact
CarriesArtifact(events, n) == \E i \in 1..n : IsArtifact(events[i])

\* the first snapshot that carries an artifact
FirstWithArtifact(events, n) ==
    CHOOSE i \in 1..n :
        IsArtifact(events[i]) /\ \A j \in 1..(i - 1) : ~IsArtifact(events[j])

\* the text of the first part of the first artifact of that snapshot
FirstArtifactText(events, n) ==
    events[FirstWithArtifact(events, n)].parts[1].text

C21_GraphIsLinear ==
    /\ \E d \in DelegateNodes :
         ran \in {<<>>, <<"route">>, <<"route", d>>, <<"route", d, "finalize">>}
    /\ Len(ran) >= 2 => m_state.routed_to \in Labels
    /\ Len(ran) >= 3 =>
         /\ m_state.worker_response # NoText
         /\ m_state.worker_response = worker_text
    /\ m_pc = "finalize" => (node = "finalize" /\ Len(ran) = 2)
    /\ m_pc \in {"emit_artifact", "emit_status", "done"} =>
         (node = "END" /\ Len(ran) = 3)
    /\ m_state.final_output # NoText => Len(ran) = 3

\* a whole invocation: route, the HR delegate, finalize, END
C21_Witness ==
    /\ m_pc = "done"
    /\ ran = <<"route", "call_hr_expert", "finalize">>
    /\ node = "END"
    /\ m_state.final_output # NoText

\* C22: the delegate step contacts only the endpoint registered for the
\* routed label (TECH: agent C, port 8001; HR: agent B, port 8000; DESIGN:
\* agent D, port 8003) and sends it one message per invocation; no other
\* worker endpoint receives a message.
C22_OnlyRegisteredEndpointContacted ==
    /\ Len(sent) <= 1
    /\ (w_pc = "idle") = (sent = <<>>)
    /\ m_pc \in {"drain", "finalize", "emit_artifact", "emit_status", "done"}
           => Len(sent) = 1
    /\ \A i \in DOMAIN sent :
         \/ /\ m_state.routed_to = "TECH"
            /\ sent[i].url = "http://localhost:8001"
            /\ w_agent = "C"
         \/ /\ m_state.routed_to = "HR"
            /\ sent[i].url = "http://localhost:8000"
            /\ w_agent = "B"
         \/ /\ m_state.routed_to = "DESIGN"
            /\ sent[i].url = "http://localhost:8003"
            /\ w_agent = "D"

\* the one message of an invocation routed to DESIGN went to port 8003
C22_Witness ==
    /\ m_pc = "done"
    /\ m_state.routed_to = "DESIGN"
    /\ Len(sent) = 1
    /\ sent[1].url = "http://localhost:8003"
    /\ w_agent = "D"
    /\ w_pc = "done"

\* C23: when the classifier output contains more than one label,
\* route_question picks the first of them in the order TECH, HR, DESIGN,
\* wherever the labels stand in the output.
C23_FirstInPriorityOrderWins ==
    (r_result # "pending" /\ Cardinality(LabelsIn(r_content)) >= 2) =>
        r_result = IF "TECH" \in LabelsIn(r_content) THEN "TECH" ELSE "HR"

\* DESIGN stands first and TECH last in the output: TECH is picked
C23_Witness ==
    /\ r_content = Content(<<"d", "e", "S", "i", "g", "n", "H", "R",
                             "t", "e", "c", "h">>)
    /\ LabelsIn(r_content) = Labels
    /\ r_result = "TECH"

\* C24: the envelope the manager sends to the worker carries the question
\* and the conversation history (the same turns in the same order) that the
\* manager decoded from its own incoming message, so the worker decodes the
\* (question, history) pair the terminal client encoded.
C24_WorkerDecodesWhatManagerDecoded ==
    e_pc \in {"prompt", "done"} =>
        /\ e_wrk.q = e_mgr.q
        /\ e_wrk.h = e_mgr.h
        /\ e_in.kind = "pair" =>
             /\ e_wrk.q = JStr(e_in.q)
             /\ Len(e_wrk.h.items) = Len(e_in.h.items)
             /\ \A i \in DOMAIN e_in.h.items :
                  e_wrk.h.items[i] = e_in.h.items[i]

\* two different turns and a question of a non-ASCII character and a newline
\* reached the worker
C24_Witness ==
    /\ e_pc = "done"
    /\ e_in.kind = "pair"
    /\ e_in.q = <<EAcute, Newline>>
    /\ Len(e_in.h.items) = 2
    /\ e_in.h.items[1] # e_in.h.items[2]
    /\ e_wrk.h = e_in.h
    /\ e_wrk.q.s = <<EAcute, Newline>>

\* C25: for every interleaving of the tasks that run at once on one endpoint
\* process, each event that execute or cancel emitted for a task carries
\* that task's own task_id and context_id, and the artifact text of a task
\* is made from that task's own message alone.
C25_TasksAreIsolated ==
    \A t \in DOMAIN tasks :
        /\ tasks[t].pc # "accepted" => tasks[t].question = tasks[t].msg
        /\ \A i \in DOMAIN tasks[t].events :
             /\ tasks[t].events[i].task_id = ToString(t)
             /\ tasks[t].events[i].context_id = tasks[t].ids.context_id
             /\ IsArtifact(tasks[t].events[i]) =>
                  tasks[t].events[i].parts[1].text
                      = <<"answer to">> \o tasks[t].msg

\* two tasks with different questions and different contexts both ran to
\* completion, the second one canceled on its way
C25_Witness ==
    /\ Len(tasks) >= 2
    /\ tasks[1].pc = "done"
    /\ tasks[2].pc = "done"
    /\ tasks[1].msg # tasks[2].msg
    /\ tasks[1].ids.context_id # tasks[2].ids.context_id
    /\ Len(tasks[1].events) = 2
    /\ Len(tasks[2].events) = 3
    /\ IsArtifact(tasks[2].events[2])

\* C26: every message the terminal client sends in one process lifetime
\* carries the same context_id, SESSION_ID, in every turn and after a clear;
\* the message the manager sends to a worker does not carry it.
C26_SessionIdOnEveryClientMessage ==
    /\ \A i \in DOMAIN l_sent : l_sent[i].context_id = SESSION_ID
    /\ \A i, j \in DOMAIN l_sent : l_sent[i].context_id = l_sent[j].context_id
    /\ \A i \in DOMAIN sent :
         /\ sent[i].context_id # SESSION_ID
         /\ sent[i].context_id = None

\* two questions with a clear between them were sent, and the manager
\* delegated the second
C26_Witness ==
    /\ Len(l_log) = 3
    /\ l_log[1].kind = "question"
    /\ l_log[2].kind = "clear"
    /\ l_log[3].kind = "question"
    /\ l_log[3].label = "DESIGN"
    /\ Len(l_sent) = 2
    /\ l_sent[2].context_id = "s2"
    /\ sent # <<>>

RECURSIVE ExpectedHistory(_)
\* the history after the lines of the log: a clear empties it, a question
\* adds the question as user and the extracted response as assistant
ExpectedHistory(log) ==
    IF log = <<>> THEN <<>>
    ELSE LET before == ExpectedHistory(SubSeq(log, 1, Len(log) - 1))
             e == log[Len(log)]
         IN  IF e.kind = "clear" THEN <<>>
             ELSE IF e.kind = "question"
                  THEN before
                       \o <<[role |-> "user", content |-> <<StripLine(e.typed)>>],
                            [role |-> "assistant",
                             content |-> extract_assistant_response(e.response)]>>
             ELSE before

\* C27: after any sequence of inputs conversation_history has even length
\* and alternates user, assistant, oldest first; each question appends the
\* pair (user: question, assistant: extracted response), an error string
\* included; clear empties it; empty input and quit, exit, q leave it as it
\* is and send nothing; the history sent with a turn is the history before
\* the turn's pair was appended.
C27_HistoryAlternatesAndFollowsTurns ==
    /\ Len(conversation_history) % 2 = 0
    /\ \A i \in DOMAIN conversation_history :
         conversation_history[i].role = IF i % 2 = 1 THEN "user" ELSE "assistant"
    /\ conversation_history = ExpectedHistory(l_log)
    /\ Len(l_sent) <= Cardinality({i \in DOMAIN l_log : l_log[i].kind = "question"})
    /\ (l_log # <<>> /\ l_log[Len(l_log)].kind \in {"empty", "quit"}) =>
           conversation_history
               = ExpectedHistory(SubSeq(l_log, 1, Len(l_log) - 1))
    /\ (/\ l_log # <<>>
        /\ l_log[Len(l_log)].kind = "question"
        /\ l_log[Len(l_log)].message_sent) =>
           LET message == l_sent[Len(l_sent)]
               n == Len(conversation_history)
           IN  /\ message.current_question = conversation_history[n - 1].content
               /\ message.conversation_history
                      = SubSeq(conversation_history, 1, n - 2)
               /\ message.conversation_history
                      = ExpectedHistory(SubSeq(l_log, 1, Len(l_log) - 1))

\* a question that could not be sent, a question that was answered, an
\* empty line: four entries, one message with the first pair as its history
C27_Witness ==
    /\ Len(l_log) = 3
    /\ l_log[1].kind = "question" /\ ~l_log[1].message_sent
    /\ l_log[2].kind = "question" /\ l_log[2].label = "HR"
    /\ l_log[3].kind = "empty"
    /\ Len(conversation_history) = 4
    /\ conversation_history[2].content = ErrorConnecting
    /\ Len(l_sent) = 1
    /\ Len(l_sent[1].conversation_history) = 2

\* C28: for every worker response text w, extract_assistant_response of the
\* manager's report for w is w without the blanks at its ends, and that is
\* the assistant turn stored in the client's history.
C28_ExtractGivesWorkerTextStripped ==
    (/\ l_log # <<>>
     /\ l_log[Len(l_log)].kind = "question"
     /\ l_log[Len(l_log)].label # None) =>
        LET e == l_log[Len(l_log)]
        IN  /\ extract_assistant_response(e.response) = StripText(e.w)
            /\ conversation_history[Len(conversation_history)].content
                   = StripText(e.w)

\* C29: send_question does not raise: a failure to connect returns the
\* "Error connecting to Agent A" text and no message is sent, an exception
\* while the stream is consumed returns the "Error during communication"
\* text, and a stream that ends without an artifact text returns
\* "No response received.".
C29_SendQuestionReturnsText ==
    /\ t_pc \in {"idle", "connect", "drain", "returned"}
    /\ t_pc = "returned" =>
         \/ /\ t_conn = "none"
            /\ m_pc = "idle"
            /\ response_text[1] = "Error connecting to Agent A: ..."
         \/ /\ t_conn = "closed"
            /\ ~TStreamEnded
            /\ response_text = <<"Error during communication: ...">>
         \/ /\ t_conn = "closed"
            /\ TStreamEnded
            /\ ~CarriesArtifact(m_events, t_rd) =>
                   response_text = <<"No response received.">>
            /\ CarriesArtifact(m_events, t_rd) =>
                   response_text = m_state.final_output

\* the manager's task was canceled before it had an artifact, and the stream
\* ended there
C29_Witness ==
    /\ t_pc = "returned"
    /\ t_conn = "closed"
    /\ t_rd = 1
    /\ IsStatus(m_events[1], "canceled")
    /\ response_text = <<"No response received.">>

=============================================================================
